---- MODULE Spec2Model ----
(***************************************************************************)
(* Streaming evaluation metrics of python/paddle/metric/metrics.py:        *)
(* Accuracy, Precision, Recall and Auc.                                    *)
(*                                                                         *)
(* Spec models one Metric instance: its class (cls), its attributes        *)
(* (self), the samples its update loops have consumed since the counters   *)
(* were last zeroed (log), and the outcome of the last call (ret).         *)
(* SpecSubclass models a class derived from Metric and its construction,   *)
(* SpecPair two instances whose lists and arrays live on a heap, and       *)
(* SpecThreads two threads that call update on one instance (threads).     *)
(* Each states above its initial predicate what the variables hold in it;  *)
(* heap and threads are empty where they are not used.                     *)
(*                                                                         *)
(* A float is modelled by the exact rational it denotes, <<num, den>> in   *)
(* lowest terms with den > 0, and the counters are exact integers: they    *)
(* stay far below 2^24.  The one float operation whose rounding decides a  *)
(* result, the sum of np.floor(preds + 0.5), is rounded to a float of      *)
(* MantissaBits bits (FloatRound); for the predictions drawn as inputs of  *)
(* the calls the rounded sum has the floor of the exact one.               *)
(***************************************************************************)
EXTENDS Integers, Sequences, FiniteSets, TLC

VARIABLES cls, self, log, ret, heap, threads

vars == <<cls, self, log, ret, heap, threads>>

(***************************************************************************)
(* Bounds of the model.                                                    *)
(***************************************************************************)
\* the longest batch one update call is given
MaxBatch == 2
\* the most samples fed between two resets
MaxSamples == 3
\* the largest num_thresholds an Auc instance is constructed with
MaxThresholds == 2

\* the finest grid of probabilities the bucket index is computed for:
\* the probabilities k / d with d <= GridDen
GridDen == 6

\* the bits of the significand of a float (53 in float64, 24 in float32):
\* the floats of the model are the m * 2^e with m < 2^MantissaBits
MantissaBits == 3

\* what a call leaves in ret: the method, what it raised and what it returned
Result(op, o) == [op |-> op, exc |-> o.exc, val |-> o.val]

(***************************************************************************)
(* Numbers.                                                                *)
(***************************************************************************)
Abs(x) == IF x < 0 THEN -x ELSE x

RECURSIVE GCD(_, _)
GCD(a, b) == IF b = 0 THEN a ELSE GCD(b, a % b)

\* the float n / d, d # 0
Rat(n, d) ==
    LET g == GCD(Abs(n), Abs(d))
        s == IF d < 0 THEN -1 ELSE 1
    IN  <<(s * n) \div g, (s * d) \div g>>

Zero == Rat(0, 1)
One == Rat(1, 1)

RAdd(x, y) == Rat(x[1] * y[2] + y[1] * x[2], x[2] * y[2])
RSub(x, y) == Rat(x[1] * y[2] - y[1] * x[2], x[2] * y[2])
RMul(x, y) == Rat(x[1] * y[1], x[2] * y[2])
RAbs(x) == <<Abs(x[1]), x[2]>>
RPos(x) == x[1] > 0
RLess(x, y) == x[1] * y[2] < y[1] * x[2]

\* Python's float / number: raises on a zero divisor
PyDiv(x, y) ==
    IF y[1] = 0 THEN [val |-> "None", exc |-> "ZeroDivisionError"]
    ELSE [val |-> Rat(x[1] * y[2], x[2] * y[1]), exc |-> "none"]

\* the floats nan and inf: no rational has a zero denominator
NaN == <<0, 0>>
Inf == <<1, 0>>
Finite(x) == x[2] # 0

\* numpy.float64 / numpy.float64: a zero divisor gives nan or inf, no exception
NpDiv(x, y) ==
    IF ~Finite(x) \/ ~Finite(y) THEN NaN
    ELSE IF y[1] = 0 THEN (IF x[1] = 0 THEN NaN ELSE Inf)
    ELSE Rat(x[1] * y[2], x[2] * y[1])

\* floor of a rational
Floor(x) == x[1] \div x[2]

\* a variant of np.rint that rounds a tie up
NpRintHalfUp(x) == Floor(RAdd(x, Rat(1, 2)))

\* np.rint(x).astype("int32"): round to nearest, ties to even
NpRint(x) ==
    LET f == Floor(x)
        twice == 2 * (x[1] - f * x[2])
    IN  IF twice < x[2] THEN f
        ELSE IF twice > x[2] THEN f + 1
        ELSE IF f % 2 = 0 THEN f ELSE f + 1

RECURSIVE Pow2(_)
Pow2(n) == IF n <= 0 THEN 1 ELSE 2 * Pow2(n - 1)

\* x * 2^k
Scale(x, k) ==
    IF k >= 0 THEN RMul(x, Rat(Pow2(k), 1)) ELSE RMul(x, Rat(1, Pow2(-k)))

\* the result of a float operation whose exact value is x: the float nearest
\* to x, the one of even significand when x lies half way between two
FloatRound(x) ==
    IF x[1] = 0 THEN x
    ELSE LET a == RAbs(x)
             e == CHOOSE k \in -12..12 :
                      ~RLess(a, Scale(One, k - 1)) /\ RLess(a, Scale(One, k))
             r == Scale(Rat(NpRint(Scale(a, MantissaBits - e)), 1), e - MantissaBits)
         IN  IF x[1] < 0 THEN RSub(Zero, r) ELSE r

\* a variant of np.floor(x + 0.5) that rounds as np.rint does
NpFloorHalfTiesEven(x) == NpRint(x)

\* a variant of np.floor(x + 0.5) whose sum is exact, not a float
NpFloorHalfExact(x) == Floor(RAdd(x, Rat(1, 2)))

\* np.floor(x + 0.5).astype("int32"): the sum x + 0.5 is a float
NpFloorHalf(x) == Floor(FloatRound(RAdd(x, Rat(1, 2))))

\* int(x): truncation toward zero
PyInt(x) == IF x[1] >= 0 THEN x[1] \div x[2] ELSE -((-x[1]) \div x[2])

Min(a, b) == IF a < b THEN a ELSE b

(***************************************************************************)
(* Arguments.  An argument is [kind, data]: a numpy array, a paddle Tensor *)
(* (converted by .numpy()) or anything else (a Python list stands for it). *)
(***************************************************************************)
_is_numpy_(var) == var.kind = "ndarray"

IsTensor(var) == var.kind = "Tensor"

Nd(d) == [kind |-> "ndarray", data |-> d]
Tensor(d) == [kind |-> "Tensor", data |-> d]
PyList(d) == [kind |-> "list", data |-> d]
PyStr(d) == [kind |-> "str", data |-> d]

\* sequences over S of length at most n
RECURSIVE SeqUpTo(_, _)
SeqUpTo(S, n) ==
    IF n <= 0 THEN {<<>>}
    ELSE LET T == SeqUpTo(S, n - 1)
         IN  T \cup {Append(t, x) : t \in {u \in T : Len(u) = n - 1}, x \in S}

Front(s) == SubSeq(s, 1, Len(s) - 1)

\* an outcome of a call: the attributes after it, what it returned, what it
\* raised, and how many samples its loop consumed
Outcome(s, v, e, n) == [self |-> s, val |-> v, exc |-> e, n |-> n]

(***************************************************************************)
(* Precision                                                               *)
(***************************************************************************)
PrecisionNew == [tp |-> 0, fp |-> 0, _name |-> PyStr("precision")]

\* one iteration of the loop of Precision.update
PrecisionStep(s, pred, label) ==
    IF pred = 1
    THEN IF pred = label THEN [s EXCEPT !.tp = @ + 1]
                         ELSE [s EXCEPT !.fp = @ + 1]
    ELSE s

\* a variant that counts into a copy of the counters and stores the copy
\* once the loop has ended: a loop that raises stores nothing
RECURSIVE PrecisionLoopOnCopy(_, _, _, _)
PrecisionLoopOnCopy(s, preds, labels, i) ==
    IF i > Len(labels) THEN Outcome(s, "None", "none", i - 1)
    ELSE IF i > Len(preds) THEN Outcome(s, "None", "IndexError", i - 1)
    ELSE PrecisionLoopOnCopy(PrecisionStep(s, preds[i], labels[i]), preds, labels, i + 1)

PrecisionLoopDiscarding(s, preds, labels, i) ==
    LET o == PrecisionLoopOnCopy(s, preds, labels, i)
    IN  IF o.exc = "none" THEN o ELSE Outcome(s, o.val, o.exc, o.n)

RECURSIVE PrecisionLoop(_, _, _, _)
PrecisionLoop(s, preds, labels, i) ==
    IF i > Len(labels) THEN Outcome(s, "None", "none", i - 1)
    ELSE IF i > Len(preds) THEN Outcome(s, "None", "IndexError", i - 1)
    ELSE PrecisionLoop(PrecisionStep(s, preds[i], labels[i]), preds, labels, i + 1)

\* a variant that counts each call from zero, as if update started by reset
PrecisionUpdatePerCall(s, preds, labels) ==
    IF ~IsTensor(preds) /\ ~_is_numpy_(preds)
    THEN Outcome(s, "None", "ValueError: preds", 0)
    ELSE IF ~IsTensor(labels) /\ ~_is_numpy_(labels)
    THEN Outcome(s, "None", "ValueError: labels", 0)
    ELSE PrecisionLoop([s EXCEPT !.tp = 0, !.fp = 0],
                       [i \in 1..Len(preds.data) |-> NpFloorHalf(preds.data[i])],
                       labels.data, 1)

PrecisionUpdate(s, preds, labels) ==
    IF ~IsTensor(preds) /\ ~_is_numpy_(preds)
    THEN Outcome(s, "None", "ValueError: preds", 0)
    ELSE IF ~IsTensor(labels) /\ ~_is_numpy_(labels)
    THEN Outcome(s, "None", "ValueError: labels", 0)
    ELSE PrecisionLoop(s, [i \in 1..Len(preds.data) |-> NpFloorHalf(preds.data[i])],
                       labels.data, 1)

PrecisionReset(s) == Outcome([s EXCEPT !.tp = 0, !.fp = 0], "None", "none", 0)

PrecisionAccumulate(s) ==
    LET ap == s.tp + s.fp
    IN  IF ap # 0
        THEN LET q == PyDiv(Rat(s.tp, 1), Rat(ap, 1)) IN Outcome(s, q.val, q.exc, 0)
        ELSE Outcome(s, Zero, "none", 0)

PrecisionName(s) == Outcome(s, s._name, "none", 0)

(***************************************************************************)
(* Recall                                                                  *)
(***************************************************************************)
RecallNew == [tp |-> 0, fn |-> 0, _name |-> PyStr("recall")]

\* one iteration of the loop of Recall.update
RecallStep(s, pred, label) ==
    IF label = 1
    THEN IF pred = label THEN [s EXCEPT !.tp = @ + 1]
                         ELSE [s EXCEPT !.fn = @ + 1]
    ELSE s

RECURSIVE RecallLoop(_, _, _, _)
RecallLoop(s, preds, labels, i) ==
    IF i > Len(labels) THEN Outcome(s, "None", "none", i - 1)
    ELSE IF i > Len(preds) THEN Outcome(s, "None", "IndexError", i - 1)
    ELSE RecallLoop(RecallStep(s, preds[i], labels[i]), preds, labels, i + 1)

\* a variant that checks the type of preds only
RecallUpdateUncheckedLabels(s, preds, labels) ==
    IF ~IsTensor(preds) /\ ~_is_numpy_(preds)
    THEN Outcome(s, "None", "ValueError: preds", 0)
    ELSE RecallLoop(s, [i \in 1..Len(preds.data) |-> NpRint(preds.data[i])],
                    labels.data, 1)

RecallUpdate(s, preds, labels) ==
    IF ~IsTensor(preds) /\ ~_is_numpy_(preds)
    THEN Outcome(s, "None", "ValueError: preds", 0)
    ELSE IF ~IsTensor(labels) /\ ~_is_numpy_(labels)
    THEN Outcome(s, "None", "ValueError: labels", 0)
    ELSE RecallLoop(s, [i \in 1..Len(preds.data) |-> NpRint(preds.data[i])],
                    labels.data, 1)

\* a variant that clears the counters once it has read them
RecallAccumulateClearing(s) ==
    LET recall == s.tp + s.fn
        cleared == [s EXCEPT !.tp = 0, !.fn = 0]
    IN  IF recall # 0
        THEN LET q == PyDiv(Rat(s.tp, 1), Rat(recall, 1))
             IN  Outcome(cleared, q.val, q.exc, 0)
        ELSE Outcome(cleared, Zero, "none", 0)

RecallAccumulate(s) ==
    LET recall == s.tp + s.fn
    IN  IF recall # 0
        THEN LET q == PyDiv(Rat(s.tp, 1), Rat(recall, 1)) IN Outcome(s, q.val, q.exc, 0)
        ELSE Outcome(s, Zero, "none", 0)

RecallReset(s) == Outcome([s EXCEPT !.tp = 0, !.fn = 0], "None", "none", 0)

RecallName(s) == Outcome(s, s._name, "none", 0)

(***************************************************************************)
(* Accuracy                                                                *)
(***************************************************************************)
RECURSIVE SeqMax(_)
SeqMax(q) == IF Len(q) = 1 THEN q[1]
             ELSE LET m == SeqMax(Tail(q)) IN IF q[1] > m THEN q[1] ELSE m

RECURSIVE SeqSum(_)
SeqSum(q) == IF q = <<>> THEN 0 ELSE q[1] + SeqSum(Tail(q))

\* a variant that sums every column of the mask: correct.sum()
SumAllColumns(correct, k) ==
    SeqSum([r \in 1..Len(correct) |-> SeqSum(correct[r])])

\* correct[:, :k].sum()
SumFirst(correct, k) ==
    SeqSum([r \in 1..Len(correct) |->
               SeqSum(SubSeq(correct[r], 1, Min(k, Len(correct[r]))))])

AccuracyInitName(s, name) ==
    IF s.maxk # 1
    THEN [s EXCEPT !._name = PyList([i \in 1..Len(s.topk) |->
                                        PyStr(name \o "_top" \o ToString(s.topk[i]))])]
    ELSE [s EXCEPT !._name = PyList(<<PyStr(name)>>)]

AccuracyReset(s) ==
    Outcome([s EXCEPT !.total = [i \in 1..Len(s.topk) |-> 0],
                      !.count = [i \in 1..Len(s.topk) |-> 0]],
            "None", "none", 0)

AccuracyNew(topk) ==
    AccuracyReset(AccuracyInitName(
        [topk |-> topk, maxk |-> SeqMax(topk), _name |-> <<>>,
         total |-> <<>>, count |-> <<>>], "acc")).self

\* a variant that assigns the batch's numbers to the counters: = for +=
RECURSIVE AccuracyLoopAssigning(_, _, _, _)
AccuracyLoopAssigning(s, correct, i, accs) ==
    IF i > Len(s.topk)
    THEN Outcome(s, IF Len(s.topk) = 1 THEN accs[1] ELSE accs, "none", Len(correct))
    ELSE LET k == s.topk[i]
             num_corrects == SumFirst(correct, k)
             num_samples == Len(correct)
             q == PyDiv(Rat(num_corrects, 1), Rat(num_samples, 1))
         IN  IF q.exc # "none" THEN Outcome(s, "None", q.exc, 0)
             ELSE AccuracyLoopAssigning([s EXCEPT !.total[i] = num_corrects,
                                                  !.count[i] = num_samples],
                                        correct, i + 1, Append(accs, q.val))

\* a variant that returns the ratios of the counters, this batch included
RECURSIVE AccuracyLoopCumulative(_, _, _, _)
AccuracyLoopCumulative(s, correct, i, accs) ==
    IF i > Len(s.topk)
    THEN Outcome(s, IF Len(s.topk) = 1 THEN accs[1] ELSE accs, "none", Len(correct))
    ELSE LET k == s.topk[i]
             num_corrects == SumFirst(correct, k)
             num_samples == Len(correct)
             q == PyDiv(Rat(s.total[i] + num_corrects, 1),
                        Rat(s.count[i] + num_samples, 1))
         IN  IF q.exc # "none" THEN Outcome(s, "None", q.exc, 0)
             ELSE AccuracyLoopCumulative([s EXCEPT !.total[i] = @ + num_corrects,
                                                   !.count[i] = @ + num_samples],
                                         correct, i + 1, Append(accs, q.val))

RECURSIVE AccuracyLoop(_, _, _, _)
AccuracyLoop(s, correct, i, accs) ==
    IF i > Len(s.topk)
    THEN Outcome(s, IF Len(s.topk) = 1 THEN accs[1] ELSE accs, "none", Len(correct))
    ELSE LET k == s.topk[i]
             num_corrects == SumFirst(correct, k)
             num_samples == Len(correct)
             q == PyDiv(Rat(num_corrects, 1), Rat(num_samples, 1))
         IN  IF q.exc # "none" THEN Outcome(s, "None", q.exc, 0)
             ELSE AccuracyLoop([s EXCEPT !.total[i] = @ + num_corrects,
                                         !.count[i] = @ + num_samples],
                               correct, i + 1, Append(accs, q.val))

AccuracyUpdate(s, correct) ==
    IF ~IsTensor(correct) /\ ~_is_numpy_(correct)
    THEN Outcome(s, "None", "TypeError", 0)
    ELSE AccuracyLoop(s, correct.data, 1, <<>>)

\* a variant whose guard lets a zero count through: c >= 0 for c > 0
AccuracyAccumulateUnguarded(s) ==
    LET r(i) == IF s.count[i] >= 0
                THEN PyDiv(Rat(s.total[i], 1), Rat(s.count[i], 1))
                ELSE [val |-> Zero, exc |-> "none"]
        res == [i \in 1..Len(s.total) |-> r(i).val]
    IN  IF \E i \in 1..Len(s.total) : r(i).exc # "none"
        THEN Outcome(s, "None", "ZeroDivisionError", 0)
        ELSE Outcome(s, IF Len(s.topk) = 1 THEN res[1] ELSE res, "none", 0)

AccuracyAccumulate(s) ==
    LET r(i) == IF s.count[i] > 0
                THEN PyDiv(Rat(s.total[i], 1), Rat(s.count[i], 1))
                ELSE [val |-> Zero, exc |-> "none"]
        res == [i \in 1..Len(s.total) |-> r(i).val]
    IN  IF \E i \in 1..Len(s.total) : r(i).exc # "none"
        THEN Outcome(s, "None", "ZeroDivisionError", 0)
        ELSE Outcome(s, IF Len(s.topk) = 1 THEN res[1] ELSE res, "none", 0)

\* a variant that returns the bare string when there is one cutoff, as
\* accumulate() returns the bare value
AccuracyNameCollapsing(s) ==
    Outcome(s, IF Len(s.topk) = 1 THEN s._name.data[1] ELSE s._name, "none", 0)

AccuracyName(s) == Outcome(s, s._name, "none", 0)

\* a variant that sorts by rising score
ArgsortAsc(row) ==
    LET rank(c) == 1 + Cardinality({d \in 1..Len(row) : RLess(row[d], row[c])})
    IN  [j \in 1..Len(row) |-> (CHOOSE c \in 1..Len(row) : rank(c) = j) - 1]

\* paddle.argsort(row, descending=True): class ids 0..C-1 by falling score
ArgsortDesc(row) ==
    LET rank(c) == 1 + Cardinality({d \in 1..Len(row) : RLess(row[c], row[d])})
    IN  [j \in 1..Len(row) |-> (CHOOSE c \in 1..Len(row) : rank(c) = j) - 1]

AccuracyCompute(s, pred, label) ==
    LET top(r) == SubSeq(ArgsortDesc(pred[r]), 1, Min(s.maxk, Len(pred[r])))
        correct == [r \in 1..Len(pred) |->
                       [j \in 1..Len(top(r)) |-> IF top(r)[j] = label[r] THEN 1 ELSE 0]]
    IN  Outcome(s, Tensor(correct), "none", 0)

\* Metric.compute: the arguments, unchanged
MetricCompute(s, args) == Outcome(s, args, "none", 0)

(***************************************************************************)
(* Auc                                                                     *)
(***************************************************************************)
AucReset(s) ==
    LET _num_pred_buckets == s._num_thresholds + 1
    IN  Outcome([s EXCEPT !._stat_pos = [b \in 0..(_num_pred_buckets - 1) |-> 0],
                          !._stat_neg = [b \in 0..(_num_pred_buckets - 1) |-> 0]],
                "None", "none", 0)

AucNew(num_thresholds) ==
    LET _num_pred_buckets == num_thresholds + 1
    IN  [_curve |-> "ROC", _num_thresholds |-> num_thresholds,
         _stat_pos |-> [b \in 0..(_num_pred_buckets - 1) |-> 0],
         _stat_neg |-> [b \in 0..(_num_pred_buckets - 1) |-> 0],
         _name |-> PyStr("auc")]

\* a variant that scales by the number of buckets, num_thresholds + 1
AucBinIdxByBuckets(value, num_thresholds) ==
    PyInt(RMul(value, Rat(num_thresholds + 1, 1)))

\* int(value * self._num_thresholds)
AucBinIdx(value, num_thresholds) == PyInt(RMul(value, Rat(num_thresholds, 1)))

\* the slot array[idx] names: a negative idx counts from the end of the array
NpIndex(idx, length) ==
    IF 0 <= idx /\ idx < length THEN idx
    ELSE IF -length <= idx /\ idx < 0 THEN length + idx
    ELSE -1

\* a variant that counts an index past the last bucket in the last bucket
AucStepClamping(s, value, lbl) ==
    LET bin_idx == Min(AucBinIdx(value, s._num_thresholds), s._num_thresholds)
        slot == NpIndex(bin_idx, s._num_thresholds + 1)
    IN  IF slot < 0 THEN [self |-> s, exc |-> "IndexError"]
        ELSE IF lbl # 0
        THEN [self |-> [s EXCEPT !._stat_pos[slot] = @ + 1], exc |-> "none"]
        ELSE [self |-> [s EXCEPT !._stat_neg[slot] = @ + 1], exc |-> "none"]

\* a variant that counts a positive label in _stat_neg and a negative one
\* in _stat_pos
AucStepSwapped(s, value, lbl) ==
    LET bin_idx == AucBinIdx(value, s._num_thresholds)
        slot == NpIndex(bin_idx, s._num_thresholds + 1)
    IN  IF ~(bin_idx <= s._num_thresholds) THEN [self |-> s, exc |-> "AssertionError"]
        ELSE IF slot < 0 THEN [self |-> s, exc |-> "IndexError"]
        ELSE IF lbl # 0
        THEN [self |-> [s EXCEPT !._stat_neg[slot] = @ + 1], exc |-> "none"]
        ELSE [self |-> [s EXCEPT !._stat_pos[slot] = @ + 1], exc |-> "none"]

\* one iteration of the loop of Auc.update; exc says whether it raised
AucStep(s, value, lbl) ==
    LET bin_idx == AucBinIdx(value, s._num_thresholds)
        slot == NpIndex(bin_idx, s._num_thresholds + 1)
    IN  IF ~(bin_idx <= s._num_thresholds) THEN [self |-> s, exc |-> "AssertionError"]
        ELSE IF slot < 0 THEN [self |-> s, exc |-> "IndexError"]
        ELSE IF lbl # 0
        THEN [self |-> [s EXCEPT !._stat_pos[slot] = @ + 1], exc |-> "none"]
        ELSE [self |-> [s EXCEPT !._stat_neg[slot] = @ + 1], exc |-> "none"]

RECURSIVE AucLoop(_, _, _, _)
AucLoop(s, preds, labels, i) ==
    IF i > Len(labels) THEN Outcome(s, "None", "none", i - 1)
    ELSE IF i > Len(preds) THEN Outcome(s, "None", "IndexError", i - 1)
    ELSE LET o == AucStep(s, preds[i][2], labels[i])
         IN  IF o.exc # "none" THEN Outcome(s, "None", o.exc, i - 1)
             ELSE AucLoop(o.self, preds, labels, i + 1)

AucUpdate(s, preds, labels) ==
    IF ~IsTensor(labels) /\ ~_is_numpy_(labels)
    THEN Outcome(s, "None", "ValueError: labels", 0)
    ELSE IF ~IsTensor(preds) /\ ~_is_numpy_(preds)
    THEN Outcome(s, "None", "ValueError: preds", 0)
    ELSE AucLoop(s, preds.data, labels.data, 1)

\* a variant that does not halve: the area of the rectangle, not the trapezoid
trapezoid_area_unhalved(x1, x2, y1, y2) ==
    RMul(RAbs(RSub(x1, x2)), RAdd(y1, y2))

trapezoid_area(x1, x2, y1, y2) ==
    RMul(RMul(RAbs(RSub(x1, x2)), RAdd(y1, y2)), Rat(1, 2))

\* a variant whose area is the rectangle under the earlier total: a negative
\* that shares its slot with a positive adds nothing
RECURSIVE AucWalkStrict(_, _, _, _, _)
AucWalkStrict(s, idx, tot_pos, tot_neg, auc) ==
    IF idx >= 0
    THEN LET tot_pos_prev == tot_pos
             tot_neg_prev == tot_neg
             pos == RAdd(tot_pos, Rat(s._stat_pos[idx], 1))
             neg == RAdd(tot_neg, Rat(s._stat_neg[idx], 1))
         IN  AucWalkStrict(s, idx - 1, pos, neg,
                           RAdd(auc, RMul(RAbs(RSub(neg, tot_neg_prev)), tot_pos_prev)))
    ELSE [tot_pos |-> tot_pos, tot_neg |-> tot_neg, auc |-> auc]

RECURSIVE AucWalk(_, _, _, _, _)
AucWalk(s, idx, tot_pos, tot_neg, auc) ==
    IF idx >= 0
    THEN LET tot_pos_prev == tot_pos
             tot_neg_prev == tot_neg
             pos == RAdd(tot_pos, Rat(s._stat_pos[idx], 1))
             neg == RAdd(tot_neg, Rat(s._stat_neg[idx], 1))
         IN  AucWalk(s, idx - 1, pos, neg,
                     RAdd(auc, trapezoid_area(neg, tot_neg_prev, pos, tot_pos_prev)))
    ELSE [tot_pos |-> tot_pos, tot_neg |-> tot_neg, auc |-> auc]

\* a variant that divides the area by the positives only
AucAccumulateOverPositives(s) ==
    LET w == AucWalk(s, s._num_thresholds, Zero, Zero, Zero)
    IN  IF RPos(w.tot_pos) /\ RPos(w.tot_neg)
        THEN Outcome(s, NpDiv(w.auc, w.tot_pos), "none", 0)
        ELSE Outcome(s, Zero, "none", 0)

AucAccumulate(s) ==
    LET w == AucWalk(s, s._num_thresholds, Zero, Zero, Zero)
    IN  IF RPos(w.tot_pos) /\ RPos(w.tot_neg)
        THEN Outcome(s, NpDiv(NpDiv(w.auc, w.tot_pos), w.tot_neg), "none", 0)
        ELSE Outcome(s, Zero, "none", 0)

AucName(s) == Outcome(s, s._name, "none", 0)

(***************************************************************************)
(* The inputs the calls are given.                                         *)
(***************************************************************************)
Classes == {"Accuracy", "Precision", "Recall", "Auc"}

\* (pred, label) samples given to Precision and Recall: the predictions
\* 0.1, 0.5 and 0.7 with either label, and 1.5 with a positive label
PredValues == {Rat(1, 10), Rat(1, 2), Rat(7, 10)}
LabelValues == {0, 1}
BinarySamples == (PredValues \X LabelValues) \cup {<<Rat(3, 2), 1>>}
BinaryBatches == SeqUpTo(BinarySamples, MaxBatch)

\* (row, label) samples given to Auc: the positive-class probabilities 0,
\* 0.5 and 1 with either label, and two values that are no probabilities,
\* 1.5 and -0.5
AucValues == {Rat(0, 1), Rat(1, 2), Rat(1, 1)}
AucRow(v) == <<RSub(One, v), v>>
AucSamples == {<<AucRow(v), l>> : v \in AucValues, l \in LabelValues}
                  \cup {<<AucRow(Rat(3, 2)), 1>>, <<AucRow(Rat(-1, 2)), 0>>}
AucBatches == SeqUpTo(AucSamples, MaxBatch)

TopkChoices == {<<1>>, <<2>>, <<1, 2>>, <<2, 1>>}
MaskRows(maxk) == {r \in SeqUpTo({0, 1}, maxk) : Len(r) = maxk}
MaskBatches(maxk) == SeqUpTo(MaskRows(maxk), MaxBatch)

Col(b, j) == [i \in 1..Len(b) |-> b[i][j]]

\* the (preds, labels) pairs an update is called with when `room` more
\* samples may be fed: equal lengths as arrays, preds one short, an argument
\* of another type and, for the batches of at most one sample, Tensors and
\* preds one long
PairCalls(batches, extra, room) ==
    LET B == {b \in batches : Len(b) <= room}
        B1 == {b \in B : Len(b) <= 1}
    IN  {<<Nd(Col(b, 1)), Nd(Col(b, 2))>> : b \in B}
        \cup {<<Tensor(Col(b, 1)), Tensor(Col(b, 2))>> : b \in B1}
        \cup {<<Nd(Front(Col(b, 1))), Nd(Col(b, 2))>> : b \in {c \in B : Len(c) >= 1}}
        \cup {<<Nd(Append(Col(b, 1), extra)), Nd(Col(b, 2))>> : b \in B1}
        \cup {<<PyList(<<>>), Nd(<<>>)>>, <<Nd(<<>>), PyList(<<>>)>>}

MaskCalls(maxk, room) ==
    LET B == {b \in MaskBatches(maxk) : Len(b) <= room}
    IN  {Nd(b) : b \in B} \cup {Tensor(b) : b \in {c \in B : Len(c) <= 1}} \cup {PyList(<<>>)}

\* the samples a call consumed: the first n (pred, label) pairs
Consumed(preds, labels, n) == [i \in 1..n |-> <<preds.data[i], labels.data[i]>>]

\* class scores of one sample, and the batches Accuracy.compute is given
ScoreRows == {<<Rat(1, 10), Rat(2, 10), Rat(3, 10), Rat(4, 10)>>,
              <<Rat(1, 10), Rat(4, 10), Rat(3, 10), Rat(2, 10)>>,
              <<Rat(1, 10), Rat(2, 10), Rat(4, 10), Rat(3, 10)>>}
ScoreBatches == SeqUpTo(ScoreRows \X {0, 1, 3}, 1)

\* the example of the docstring of Accuracy: four samples, labels 0 to 3
AccuracyExample ==
    [x |-> <<<<Rat(1, 10), Rat(2, 10), Rat(3, 10), Rat(4, 10)>>,
             <<Rat(1, 10), Rat(4, 10), Rat(3, 10), Rat(2, 10)>>,
             <<Rat(1, 10), Rat(2, 10), Rat(4, 10), Rat(3, 10)>>,
             <<Rat(1, 10), Rat(2, 10), Rat(3, 10), Rat(4, 10)>>>>,
     y |-> <<0, 1, 2, 3>>]

\* the arguments Metric.compute is given
PassArgs == {<<Nd(<<>>), Nd(<<>>)>>, <<Nd(<<Rat(1, 2)>>), Nd(<<1>>)>>}

(***************************************************************************)
(* The instance after construction.                                        *)
(***************************************************************************)
Init ==
    /\ cls \in Classes
    /\ self \in CASE cls = "Accuracy" -> {AccuracyNew(topk) : topk \in TopkChoices}
                  [] cls = "Precision" -> {PrecisionNew}
                  [] cls = "Recall" -> {RecallNew}
                  [] cls = "Auc" -> {AucNew(n) : n \in 1..MaxThresholds}
    /\ log = <<>>
    /\ ret = [op |-> "__init__", val |-> "None", exc |-> "none"]
    /\ heap = <<>>
    /\ threads = <<>>

(***************************************************************************)
(* The calls.                                                              *)
(***************************************************************************)
CallAccuracyCompute ==
    /\ cls = "Accuracy"
    /\ \E b \in ScoreBatches :
         ret' = Result("compute", AccuracyCompute(self, Col(b, 1), Col(b, 2)))
    /\ UNCHANGED <<cls, self, log, heap, threads>>

CallAccuracyUpdate ==
    /\ cls = "Accuracy"
    /\ \E correct \in MaskCalls(self.maxk, MaxSamples - Len(log)) :
         LET o == AccuracyUpdate(self, correct)
         IN  /\ self' = o.self
             /\ log' = log \o SubSeq(correct.data, 1, o.n)
             /\ ret' = Result("update", o)
    /\ UNCHANGED <<cls, heap, threads>>

CallAccuracyReset ==
    /\ cls = "Accuracy"
    /\ LET o == AccuracyReset(self)
       IN  self' = o.self /\ ret' = Result("reset", o)
    /\ log' = <<>>
    /\ UNCHANGED <<cls, heap, threads>>

CallAccuracyAccumulate ==
    /\ cls = "Accuracy"
    /\ LET o == AccuracyAccumulate(self)
       IN  self' = o.self /\ ret' = Result("accumulate", o)
    /\ UNCHANGED <<cls, log, heap, threads>>

CallAccuracyName ==
    /\ cls = "Accuracy"
    /\ LET o == AccuracyName(self)
       IN  self' = o.self /\ ret' = Result("name", o)
    /\ UNCHANGED <<cls, log, heap, threads>>

CallMetricCompute ==
    /\ cls # "Accuracy"
    /\ \E args \in PassArgs :
         LET o == MetricCompute(self, args)
         IN  self' = o.self /\ ret' = Result("compute", o)
    /\ UNCHANGED <<cls, log, heap, threads>>

CallPrecisionUpdate ==
    /\ cls = "Precision"
    /\ \E c \in PairCalls(BinaryBatches, Rat(1, 2), MaxSamples - Len(log)) :
         LET o == PrecisionUpdate(self, c[1], c[2])
         IN  /\ self' = o.self
             /\ log' = log \o Consumed(c[1], c[2], o.n)
             /\ ret' = Result("update", o)
    /\ UNCHANGED <<cls, heap, threads>>

CallPrecisionReset ==
    /\ cls = "Precision"
    /\ LET o == PrecisionReset(self)
       IN  self' = o.self /\ ret' = Result("reset", o)
    /\ log' = <<>>
    /\ UNCHANGED <<cls, heap, threads>>

CallPrecisionAccumulate ==
    /\ cls = "Precision"
    /\ LET o == PrecisionAccumulate(self)
       IN  self' = o.self /\ ret' = Result("accumulate", o)
    /\ UNCHANGED <<cls, log, heap, threads>>

CallPrecisionName ==
    /\ cls = "Precision"
    /\ LET o == PrecisionName(self)
       IN  self' = o.self /\ ret' = Result("name", o)
    /\ UNCHANGED <<cls, log, heap, threads>>

CallRecallUpdate ==
    /\ cls = "Recall"
    /\ \E c \in PairCalls(BinaryBatches, Rat(1, 2), MaxSamples - Len(log)) :
         LET o == RecallUpdate(self, c[1], c[2])
         IN  /\ self' = o.self
             /\ log' = log \o Consumed(c[1], c[2], o.n)
             /\ ret' = Result("update", o)
    /\ UNCHANGED <<cls, heap, threads>>

CallRecallAccumulate ==
    /\ cls = "Recall"
    /\ LET o == RecallAccumulate(self)
       IN  self' = o.self /\ ret' = Result("accumulate", o)
    /\ UNCHANGED <<cls, log, heap, threads>>

CallRecallReset ==
    /\ cls = "Recall"
    /\ LET o == RecallReset(self)
       IN  self' = o.self /\ ret' = Result("reset", o)
    /\ log' = <<>>
    /\ UNCHANGED <<cls, heap, threads>>

CallRecallName ==
    /\ cls = "Recall"
    /\ LET o == RecallName(self)
       IN  self' = o.self /\ ret' = Result("name", o)
    /\ UNCHANGED <<cls, log, heap, threads>>

CallAucUpdate ==
    /\ cls = "Auc"
    /\ \E c \in PairCalls(AucBatches, AucRow(Rat(1, 2)), MaxSamples - Len(log)) :
         LET o == AucUpdate(self, c[1], c[2])
         IN  /\ self' = o.self
             /\ log' = log \o Consumed(c[1], c[2], o.n)
             /\ ret' = Result("update", o)
    /\ UNCHANGED <<cls, heap, threads>>

CallAucAccumulate ==
    /\ cls = "Auc"
    /\ LET o == AucAccumulate(self)
       IN  self' = o.self /\ ret' = Result("accumulate", o)
    /\ UNCHANGED <<cls, log, heap, threads>>

CallAucReset ==
    /\ cls = "Auc"
    /\ LET o == AucReset(self)
       IN  self' = o.self /\ ret' = Result("reset", o)
    /\ log' = <<>>
    /\ UNCHANGED <<cls, heap, threads>>

CallAucName ==
    /\ cls = "Auc"
    /\ LET o == AucName(self)
       IN  self' = o.self /\ ret' = Result("name", o)
    /\ UNCHANGED <<cls, log, heap, threads>>

Next ==
    \/ CallAccuracyCompute
    \/ CallAccuracyUpdate
    \/ CallAccuracyReset
    \/ CallAccuracyAccumulate
    \/ CallAccuracyName
    \/ CallMetricCompute
    \/ CallPrecisionUpdate
    \/ CallPrecisionReset
    \/ CallPrecisionAccumulate
    \/ CallPrecisionName
    \/ CallRecallUpdate
    \/ CallRecallAccumulate
    \/ CallRecallReset
    \/ CallRecallName
    \/ CallAucUpdate
    \/ CallAucAccumulate
    \/ CallAucReset
    \/ CallAucName

Spec == Init /\ [][Next]_vars

(***************************************************************************)
(* The calls of the instance's class, applied to attributes s.             *)
(***************************************************************************)
AccumulateOf(c, s) ==
    CASE c = "Accuracy" -> AccuracyAccumulate(s)
      [] c = "Precision" -> PrecisionAccumulate(s)
      [] c = "Recall" -> RecallAccumulate(s)
      [] c = "Auc" -> AucAccumulate(s)

ResetOf(c, s) ==
    CASE c = "Accuracy" -> AccuracyReset(s)
      [] c = "Precision" -> PrecisionReset(s)
      [] c = "Recall" -> RecallReset(s)
      [] c = "Auc" -> AucReset(s)

\* one update call that is given the samples of `samples` as a single batch
UpdateOf(c, s, samples) ==
    CASE c = "Accuracy" -> AccuracyUpdate(s, Nd(samples))
      [] c = "Precision" -> PrecisionUpdate(s, Nd(Col(samples, 1)), Nd(Col(samples, 2)))
      [] c = "Recall" -> RecallUpdate(s, Nd(Col(samples, 1)), Nd(Col(samples, 2)))
      [] c = "Auc" -> AucUpdate(s, Nd(Col(samples, 1)), Nd(Col(samples, 2)))

NameOf(c, s) ==
    CASE c = "Accuracy" -> AccuracyName(s)
      [] c = "Precision" -> PrecisionName(s)
      [] c = "Recall" -> RecallName(s)
      [] c = "Auc" -> AucName(s)

\* the counters of an instance, as one sequence
CountersOf(c, s) ==
    CASE c = "Accuracy" -> s.total \o s.count
      [] c = "Precision" -> <<s.tp, s.fp>>
      [] c = "Recall" -> <<s.tp, s.fn>>
      [] c = "Auc" -> [i \in 1..(s._num_thresholds + 1) |-> s._stat_pos[i - 1]]
                      \o [i \in 1..(s._num_thresholds + 1) |-> s._stat_neg[i - 1]]

AllZero(q) == \A i \in 1..Len(q) : q[i] = 0

\* what accumulate() returns for 0.0: a scalar, or one 0.0 per cutoff
ZeroValue(c, s) ==
    IF c = "Accuracy" /\ Len(s.topk) # 1 THEN [i \in 1..Len(s.topk) |-> Zero] ELSE Zero

(***************************************************************************)
(* A class derived from Metric.  Of each abstract method the class either  *)
(* defines none ("missing"), or one that calls the method of Metric        *)
(* ("super"), or one of its own ("own"), which returns None.  Here cls is  *)
(* the class, self the object a construction yielded and ret the outcome   *)
(* of the last call, whose exc is [type, function, cls]: the exception's   *)
(* type and the method names and class name its message gives.             *)
(***************************************************************************)
\* the methods decorated with abc.abstractmethod
AbstractMethods == {"reset", "update", "accumulate", "name"}

Subclasses ==
    [name : {"MyMetric", "Other"},
     defines : [AbstractMethods -> {"missing", "super", "own"}]]

NoException == [type |-> "none", function |-> {}, cls |-> ""]
NoObject == [__class__ |-> "NoneType"]

\* raise NotImplementedError("function '...' not implemented in {}."
\*                           .format(self.__class__.__name__))
MetricAbstract(s, function) ==
    Outcome(s, "None",
            [type |-> "NotImplementedError", function |-> {function},
             cls |-> s.__class__], 0)

MetricReset(s) == MetricAbstract(s, "reset")
MetricUpdate(s, args) == MetricAbstract(s, "update")
MetricAccumulate(s) == MetricAbstract(s, "accumulate")
MetricName(s) == MetricAbstract(s, "name")

\* a variant of the construction for a Metric whose metaclass is type: the
\* abstract methods are not looked at
ConstructUnchecked(c) ==
    Outcome([__class__ |-> c.name], "None", NoException, 0)

\* c(): the metaclass abc.ABCMeta refuses a class that leaves an abstract
\* method undefined; Metric.__init__ does nothing
Construct(c) ==
    LET abstract == {f \in AbstractMethods : c.defines[f] = "missing"}
    IN  IF abstract # {}
        THEN Outcome(NoObject, "None",
                     [type |-> "TypeError", function |-> abstract, cls |-> c.name], 0)
        ELSE Outcome([__class__ |-> c.name], "None", NoException, 0)

\* self.function(args): the method of the class, else the inherited one
Dispatch(c, s, function, args) ==
    IF c.defines[function] = "own" THEN Outcome(s, "None", NoException, 0)
    ELSE CASE function = "reset" -> MetricReset(s)
           [] function = "update" -> MetricUpdate(s, args)
           [] function = "accumulate" -> MetricAccumulate(s)
           [] function = "name" -> MetricName(s)

InitSubclass ==
    /\ cls \in Subclasses
    /\ self = Construct(cls).self
    /\ log = <<>>
    /\ ret = Result("__init__", Construct(cls))
    /\ heap = <<>>
    /\ threads = <<>>

CallSubclassMethod(function) ==
    /\ self # NoObject
    /\ \E args \in PassArgs :
         LET o == Dispatch(cls, self, function, args)
         IN  self' = o.self /\ ret' = Result(function, o)
    /\ UNCHANGED <<cls, log, heap, threads>>

CallSubclassReset == CallSubclassMethod("reset")
CallSubclassUpdate == CallSubclassMethod("update")
CallSubclassAccumulate == CallSubclassMethod("accumulate")
CallSubclassName == CallSubclassMethod("name")

CallSubclassCompute ==
    /\ self # NoObject
    /\ \E args \in PassArgs :
         LET o == MetricCompute(self, args)
         IN  /\ self' = o.self
             /\ ret' = [op |-> "compute", val |-> o.val, exc |-> NoException]
    /\ UNCHANGED <<cls, log, heap, threads>>

NextSubclass ==
    \/ CallSubclassReset
    \/ CallSubclassUpdate
    \/ CallSubclassAccumulate
    \/ CallSubclassName
    \/ CallSubclassCompute

SpecSubclass == InitSubclass /\ [][NextSubclass]_vars

(***************************************************************************)
(* Two instances.  The lists of an Accuracy (total, count) and the arrays  *)
(* of an Auc (_stat_pos, _stat_neg) are objects of the heap, which the     *)
(* attributes refer to by address: update changes them in place, reset and *)
(* __init__ bind the attributes to new ones.  Here cls, self and log hold  *)
(* one entry per instance: its class, its attributes and the number of     *)
(* samples it consumed since its counters were zeroed; ret.who is the      *)
(* instance the last call was made on.                                     *)
(***************************************************************************)
\* the attributes of class c that refer to a list or an array
ContainerFields(c) ==
    CASE c = "Accuracy" -> <<"total", "count">>
      [] c = "Auc" -> <<"_stat_pos", "_stat_neg">>
      [] OTHER -> <<>>

IsContainer(c, f) ==
    \E i \in 1..Len(ContainerFields(c)) : ContainerFields(c)[i] = f

\* a variant that hands out the same object at every request, as for a list
\* kept as an attribute of the class
AllocShared(h) == 1

\* [0.] * len(self.topk), np.zeros(_num_pred_buckets): a new object, at the
\* least address that no object of the heap h has
Alloc(h) ==
    LET free == {a \in 1..(Cardinality(DOMAIN h) + 1) : a \notin DOMAIN h}
    IN  CHOOSE a \in free : \A b \in free : a <= b

\* the attributes of the object o of class c, each list and array in the
\* place of its address
Load(h, c, o) == [f \in DOMAIN o |-> IF IsContainer(c, f) THEN h[o[f]] ELSE o[f]]

\* self.f = <new object> for the i-th and later container attributes f: the
\* new objects hold what the attributes s hold
RECURSIVE Bind(_, _, _, _, _)
Bind(h, c, o, s, i) ==
    IF i > Len(ContainerFields(c)) THEN [heap |-> h, self |-> o]
    ELSE LET f == ContainerFields(c)[i]
             a == Alloc(h)
         IN  Bind([b \in DOMAIN h \cup {a} |-> IF b = a THEN s[f] ELSE h[b]],
                  c, [o EXCEPT ![f] = a], s, i + 1)

\* self.f[i] += ...: the objects the container attributes of o refer to
\* come to hold what the attributes s hold; the other attributes are set
Mutate(h, c, o, s) ==
    LET field(a) == CHOOSE f \in DOMAIN o : IsContainer(c, f) /\ o[f] = a
    IN  [heap |-> [a \in DOMAIN h |->
                      IF \E f \in DOMAIN o : IsContainer(c, f) /\ o[f] = a
                      THEN s[field(a)] ELSE h[a]],
         self |-> [f \in DOMAIN o |-> IF IsContainer(c, f) THEN o[f] ELSE s[f]]]

\* the objects some attribute of the instances refers to; the others are
\* freed
Collect(h, cs, os) ==
    LET live == UNION {{os[k][ContainerFields(cs[k])[i]] :
                           i \in 1..Len(ContainerFields(cs[k]))} : k \in 1..Len(os)}
    IN  [a \in DOMAIN h \cap live |-> h[a]]

\* the call of the method op on the object o of class c: the heap and the
\* object after it, and its outcome
CallOn(h, c, o, op, samples) ==
    LET s == Load(h, c, o)
        out == CASE op = "update" -> UpdateOf(c, s, samples)
                 [] op = "reset" -> ResetOf(c, s)
                 [] op = "accumulate" -> AccumulateOf(c, s)
        st == IF op = "reset"
              THEN Bind(h, c, Mutate(h, c, o, out.self).self, out.self, 1)
              ELSE Mutate(h, c, o, out.self)
    IN  [heap |-> st.heap, self |-> st.self, out |-> out]

\* the instances a pair is made of
PairNewOf(c) ==
    CASE c = "Accuracy" -> {AccuracyNew(<<1>>), AccuracyNew(<<1, 2>>)}
      [] c = "Precision" -> {PrecisionNew}
      [] c = "Recall" -> {RecallNew}
      [] c = "Auc" -> {AucNew(1)}

\* the samples an update of the pair is given, one a call: for each counter
\* one that is counted there and, for Auc, one update raises at
PairSamples(c, s) ==
    CASE c = "Accuracy" -> MaskRows(s.maxk)
      [] c \in {"Precision", "Recall"} ->
             {<<Rat(7, 10), 1>>, <<Rat(7, 10), 0>>, <<Rat(1, 10), 1>>}
      [] c = "Auc" ->
             {<<AucRow(Zero), 0>>, <<AucRow(One), 1>>, <<AucRow(Rat(3, 2)), 1>>}

InitPair ==
    \E c1 \in Classes, c2 \in Classes :
        \E s1 \in PairNewOf(c1), s2 \in PairNewOf(c2) :
            LET first == Bind(<<>>, c1, s1, s1, 1)
                second == Bind(first.heap, c2, s2, s2, 1)
            IN  /\ cls = <<c1, c2>>
                /\ self = <<first.self, second.self>>
                /\ heap = second.heap
                /\ log = <<0, 0>>
                /\ ret = [op |-> "__init__", val |-> "None", exc |-> "none",
                          who |-> 2]
                /\ threads = <<>>

\* the step of the pair for a call on instance k with outcome r
PairStep(k, op, r, n) ==
    /\ self' = [self EXCEPT ![k] = r.self]
    /\ heap' = Collect(r.heap, cls, self')
    /\ log' = [log EXCEPT ![k] = n]
    /\ ret' = [op |-> op, val |-> r.out.val, exc |-> r.out.exc, who |-> k]
    /\ UNCHANGED <<cls, threads>>

CallPairUpdate ==
    \E k \in 1..2 :
        /\ log[k] < MaxBatch
        /\ \E x \in PairSamples(cls[k], self[k]) :
             LET r == CallOn(heap, cls[k], self[k], "update", <<x>>)
             IN  PairStep(k, "update", r, log[k] + r.out.n)

CallPairReset ==
    \E k \in 1..2 :
        PairStep(k, "reset", CallOn(heap, cls[k], self[k], "reset", <<>>), 0)

CallPairAccumulate ==
    \E k \in 1..2 :
        PairStep(k, "accumulate",
                 CallOn(heap, cls[k], self[k], "accumulate", <<>>), log[k])

NextPair ==
    \/ CallPairUpdate
    \/ CallPairReset
    \/ CallPairAccumulate

SpecPair == InitPair /\ [][NextPair]_vars

(***************************************************************************)
(* Two threads that each call update once on one Precision or Recall       *)
(* instance.  self.tp += 1 is a read of the attribute, an addition and a   *)
(* write of the attribute, and the other thread may run between the read   *)
(* and the write.  threads.run[t] is thread t: where it is (pc), the       *)
(* sample it is at (i), the value it read (tmp), the batch it was given    *)
(* and the rounded predictions of the batch (preds, once it has called);   *)
(* threads.lock is the lock the caller keeps around update: -1 when the    *)
(* caller keeps none, 0 when it is free, else the thread that has it.      *)
(* Here log counts, per counter, the additions that a write has undone.    *)
(***************************************************************************)
\* the rounded prediction of the loop of update of class c
DecisionOf(c, x) == IF c = "Precision" THEN NpFloorHalf(x) ELSE NpRint(x)

\* the counter the loop of update of class c adds to for a sample, "" when
\* it adds to none
CounterOf(c, pred, label) ==
    CASE c = "Precision" ->
             IF pred = 1 THEN (IF pred = label THEN "tp" ELSE "fp") ELSE ""
      [] c = "Recall" ->
             IF label = 1 THEN (IF pred = label THEN "tp" ELSE "fn") ELSE ""

\* the first sample of the batch, from the i-th on, that the loop adds to a
\* counter for; Len(batch) + 1 when the loop ends without one
RECURSIVE NextCounted(_, _, _, _)
NextCounted(c, preds, batch, i) ==
    IF i > Len(batch) THEN i
    ELSE IF CounterOf(c, preds[i], batch[i][2]) # "" THEN i
    ELSE NextCounted(c, preds, batch, i + 1)

\* a variant that adds to the attribute in one step: to what it holds when
\* written, not to what was read
StoreCounterAtomic(s, counter, tmp) == [s EXCEPT ![counter] = @ + 1]

\* the write of self.tp += 1: the attribute becomes the value read, plus 1
StoreCounter(s, counter, tmp) == [s EXCEPT ![counter] = tmp + 1]

\* the samples and the batches the threads are given
ThreadSamples == {<<Rat(7, 10), 1>>, <<Rat(7, 10), 0>>, <<Rat(1, 10), 1>>}
ThreadBatches == SeqUpTo(ThreadSamples, MaxBatch) \ {<<>>}
ThreadCalls ==
    {b \in ThreadBatches \X ThreadBatches : Len(b[1]) + Len(b[2]) <= MaxSamples}

InitThreads ==
    /\ cls \in {"Precision", "Recall"}
    /\ self = IF cls = "Precision" THEN PrecisionNew ELSE RecallNew
    /\ log = [counter \in {"tp", "fp", "fn"} |-> 0]
    /\ ret = [op |-> "__init__", val |-> "None", exc |-> "none"]
    /\ heap = <<>>
    /\ \E lock \in {-1, 0}, b \in ThreadCalls :
         threads = [lock |-> lock,
                    run |-> [t \in 1..2 |-> [pc |-> "idle", i |-> 0, tmp |-> 0,
                                             batch |-> b[t], preds |-> <<>>]]]

\* thread t goes on to the next sample it adds to a counter for, from the
\* i-th on, or returns from update; on return it gives the lock back
ThreadGoOn(t, preds, i) ==
    LET me == threads.run[t]
        j == NextCounted(cls, preds, me.batch, i)
        returns == j > Len(me.batch)
    IN  /\ threads' = [threads EXCEPT
                          !.run[t].preds = preds,
                          !.run[t].i = j,
                          !.run[t].pc = IF returns THEN "done" ELSE "read",
                          !.lock = IF returns /\ @ = t THEN 0
                                   ELSE IF ~returns /\ @ = 0 THEN t ELSE @]
        /\ ret' = IF returns THEN [op |-> "update", val |-> "None", exc |-> "none"]
                  ELSE ret

\* thread t calls update: the checks and the rounding, up to the first read
ThreadCall(t) ==
    /\ threads.run[t].pc = "idle"
    /\ threads.lock \in {-1, 0}
    /\ ThreadGoOn(t, [i \in 1..Len(threads.run[t].batch) |->
                         DecisionOf(cls, threads.run[t].batch[i][1])], 1)
    /\ UNCHANGED <<cls, self, log, heap>>

\* thread t reads the counter of its sample
ThreadRead(t) ==
    LET me == threads.run[t]
        counter == CounterOf(cls, me.preds[me.i], me.batch[me.i][2])
    IN  /\ me.pc = "read"
        /\ threads' = [threads EXCEPT !.run[t].pc = "write",
                                      !.run[t].tmp = self[counter]]
        /\ UNCHANGED <<cls, self, log, ret, heap>>

\* thread t writes the counter of its sample and goes on
ThreadWrite(t) ==
    LET me == threads.run[t]
        counter == CounterOf(cls, me.preds[me.i], me.batch[me.i][2])
    IN  /\ me.pc = "write"
        /\ self' = StoreCounter(self, counter, me.tmp)
        /\ log' = [log EXCEPT ![counter] = @ + (self[counter] - me.tmp)]
        /\ ThreadGoOn(t, me.preds, me.i + 1)
        /\ UNCHANGED <<cls, heap>>

NextThreads ==
    \/ \E t \in 1..2 : ThreadCall(t)
    \/ \E t \in 1..2 : ThreadRead(t)
    \/ \E t \in 1..2 : ThreadWrite(t)

SpecThreads == InitThreads /\ [][NextThreads]_vars

(***************************************************************************)
(* The states in which what holds of an instance is looked at.  The calls  *)
(* that set the attributes and log are __init__, reset and update; the     *)
(* others leave both as they are, and an update that raises leaves them as *)
(* the update that is given the samples before the failing one sets them.  *)
(* So every instance the calls reach, with every log, is there in a state  *)
(* that one of the three calls has just returned into.                     *)
(***************************************************************************)
JustSet == ret.op \in {"__init__", "reset", "update"} /\ ret.exc = "none"

JustRead == ret.op = "accumulate"

(***************************************************************************)
(* C1.  Fed the same list of samples in one update call or split into      *)
(* batches, an instance ends with the same counters and accumulate()       *)
(* returns the same value: in every state the counters are those of a      *)
(* reset instance given all samples fed so far as one batch.               *)
(***************************************************************************)
C1_BatchSplitIndependent ==
    (Len(log) > 0 /\ (JustSet \/ JustRead)) =>
        LET one == UpdateOf(cls, ResetOf(cls, self).self, log)
        IN  /\ one.exc = "none"
            /\ CountersOf(cls, self) = CountersOf(cls, one.self)
            /\ ret.op = "accumulate" => ret.val = AccumulateOf(cls, one.self).val

\* more samples than one batch holds were fed, so in at least two calls
C1_Witness ==
    /\ cls = "Auc"
    /\ Len(log) > MaxBatch
    /\ ret.op = "accumulate"
    /\ ret.val \notin {Zero, One}

(***************************************************************************)
(* C2.  After reset(), and on a fresh instance, every counter is zero and  *)
(* accumulate() returns 0.0 (one 0.0 per cutoff for multi-cutoff Accuracy) *)
(* without raising; no accumulate() raises or divides by zero.             *)
(***************************************************************************)
C2_ZeroAfterReset ==
    /\ ret.op \in {"__init__", "reset"} =>
           /\ AllZero(CountersOf(cls, self))
           /\ AccumulateOf(cls, self).exc = "none"
           /\ AccumulateOf(cls, self).val = ZeroValue(cls, self)
    /\ ret.op = "accumulate" =>
           /\ ret.exc = "none"
           /\ IF cls = "Accuracy" /\ Len(self.topk) # 1
              THEN \A i \in 1..Len(ret.val) : Finite(ret.val[i])
              ELSE Finite(ret.val)
           /\ AllZero(CountersOf(cls, self)) => ret.val = ZeroValue(cls, self)

C2_Witness ==
    /\ cls = "Accuracy"
    /\ Len(self.topk) = 2
    /\ ret.op = "accumulate"
    /\ AllZero(CountersOf(cls, self))
    /\ ret.val = <<Zero, Zero>>

(***************************************************************************)
(* C3.  accumulate() is a pure read: the step leaves every attribute as it *)
(* was, and two accumulate() calls in a row return the same value.         *)
(***************************************************************************)
C3_AccumulateStep ==
    ret'.op = "accumulate" =>
        /\ self' = self
        /\ ret.op = "accumulate" => ret' = ret

C3_AccumulatePure == [][C3_AccumulateStep]_vars

C3_Witness ==
    /\ cls = "Recall"
    /\ ret.op = "accumulate"
    /\ self.tp > 0
    /\ self.fn > 0

(***************************************************************************)
(* C4.  Between two reset() calls no counter ever decreases, and only      *)
(* update and reset change a counter.                                      *)
(***************************************************************************)
C4_CounterStep ==
    LET before == CountersOf(cls, self)
        after == CountersOf(cls', self')
    IN  /\ ret'.op # "reset" =>
               /\ Len(after) = Len(before)
               /\ \A i \in 1..Len(before) : before[i] <= after[i]
        /\ ret'.op \notin {"update", "reset"} => after = before

C4_CountersMonotone == [][C4_CounterStep]_vars

C4_Witness ==
    /\ cls = "Accuracy"
    /\ ret.op = "update"
    /\ Len(log) > MaxBatch
    /\ self.total[1] > 0

(***************************************************************************)
(* C5.  Precision: accumulate() is (samples decided 1 whose label is 1) /  *)
(* (samples decided 1), the decision being floor(pred + 0.5), and 0.0 when *)
(* no sample was decided 1; samples decided otherwise count nowhere.  The  *)
(* docstring's example gives 1.0.                                          *)
(***************************************************************************)
\* floor(x + 1/2): the integer d with d <= x + 1/2 < d + 1
HalfUpDecision(x) ==
    CHOOSE d \in -2..4 :
        /\ 2 * d * x[2] <= 2 * x[1] + x[2]
        /\ 2 * x[1] + x[2] < 2 * (d + 1) * x[2]

PrecisionExample ==
    PrecisionUpdate(PrecisionNew,
                    Nd(<<Rat(1, 10), Rat(5, 10), Rat(6, 10), Rat(7, 10)>>),
                    Nd(<<0, 1, 1, 1>>))

C5_PrecisionEndToEnd ==
    /\ PrecisionExample.exc = "none"
    /\ PrecisionAccumulate(PrecisionExample.self).val = One
    /\ cls = "Precision" =>
         LET pos == {i \in 1..Len(log) : HalfUpDecision(log[i][1]) = 1}
             hit == {i \in pos : log[i][2] = 1}
             expected == IF pos = {} THEN Zero
                         ELSE Rat(Cardinality(hit), Cardinality(pos))
         IN  /\ self.tp = Cardinality(hit)
             /\ self.fp = Cardinality(pos) - Cardinality(hit)
             /\ ret.op = "accumulate" => ret.exc = "none" /\ ret.val = expected

\* a true positive, a false positive and a sample decided 2 were fed
C5_Witness ==
    /\ cls = "Precision"
    /\ ret.op = "accumulate"
    /\ ret.val = Rat(1, 2)
    /\ self.tp = 1
    /\ self.fp = 1
    /\ \E i \in 1..Len(log) : log[i][1] = Rat(3, 2)

(***************************************************************************)
(* C6.  Recall: accumulate() is (samples labelled 1 whose prediction       *)
(* rounds to 1) / (samples labelled 1), and 0.0 when no sample was         *)
(* labelled 1; samples labelled otherwise count nowhere.  The docstring's  *)
(* example gives 2/3.                                                      *)
(***************************************************************************)
\* the integer nearest to x, the even one of the two when x lies half way
NearestEven(x) ==
    CHOOSE r \in -2..4 :
        LET twice == 2 * Abs(x[1] - r * x[2])
        IN  twice < x[2] \/ (twice = x[2] /\ r % 2 = 0)

RecallExample ==
    RecallUpdate(RecallNew,
                 Nd(<<Rat(1, 10), Rat(5, 10), Rat(6, 10), Rat(7, 10)>>),
                 Nd(<<1, 0, 1, 1>>))

C6_RecallEndToEnd ==
    /\ RecallExample.exc = "none"
    /\ RecallAccumulate(RecallExample.self).val = Rat(2, 3)
    /\ cls = "Recall" =>
         LET rel == {i \in 1..Len(log) : log[i][2] = 1}
             hit == {i \in rel : NearestEven(log[i][1]) = 1}
             expected == IF rel = {} THEN Zero
                         ELSE Rat(Cardinality(hit), Cardinality(rel))
         IN  /\ self.tp = Cardinality(hit)
             /\ self.fn = Cardinality(rel) - Cardinality(hit)
             /\ ret.op = "accumulate" => ret.exc = "none" /\ ret.val = expected

\* a positive at the tie 0.5 is missed, another is found, a negative is fed
C6_Witness ==
    /\ cls = "Recall"
    /\ ret.op = "accumulate"
    /\ ret.val = Rat(1, 2)
    /\ \E i \in 1..Len(log) : log[i] = <<Rat(1, 2), 1>>
    /\ \E i \in 1..Len(log) : log[i][2] = 0

(***************************************************************************)
(* C7.  Accuracy: total[i] is the number of ones in the first topk[i]      *)
(* columns of all mask rows fed, count[i] the number of rows fed, and      *)
(* accumulate() returns total[i] / count[i] per cutoff (0.0 for a zero     *)
(* count): a scalar for a single cutoff, else a sequence in topk order.    *)
(***************************************************************************)
C7_AccuracyEndToEnd ==
    cls = "Accuracy" =>
        LET ones(k) == {<<r, j>> \in (1..Len(log)) \X (1..k) :
                            j <= Len(log[r]) /\ log[r][j] = 1}
            ratio(i) == IF Len(log) = 0 THEN Zero
                        ELSE Rat(Cardinality(ones(self.topk[i])), Len(log))
        IN  /\ \A i \in 1..Len(self.topk) :
                  /\ self.total[i] = Cardinality(ones(self.topk[i]))
                  /\ self.count[i] = Len(log)
            /\ Len(self.total) = Len(self.topk)
            /\ Len(self.count) = Len(self.topk)
            /\ ret.op = "accumulate" =>
                  /\ ret.exc = "none"
                  /\ ret.val = IF Len(self.topk) = 1 THEN ratio(1)
                               ELSE [i \in 1..Len(self.topk) |-> ratio(i)]

C7_Witness ==
    /\ cls = "Accuracy"
    /\ self.topk = <<1, 2>>
    /\ ret.op = "accumulate"
    /\ ret.val = <<Rat(1, 3), Rat(2, 3)>>

(***************************************************************************)
(* C8.  Auc.update counts each sample of a batch of probabilities in       *)
(* exactly one slot, by one: slot floor(value * num_thresholds) of         *)
(* _stat_pos when the label is positive, else of _stat_neg; no other slot  *)
(* changes and both arrays keep num_thresholds + 1 slots.                  *)
(***************************************************************************)
IsProbability(v) == 0 <= v[1] /\ v[1] <= v[2]

\* the samples of b, each <<row, label>>, that fall in slot k of the array
\* of the positives (pos) or of the negatives
InSlot(b, n, pos, k) ==
    {i \in 1..Len(b) : /\ (b[i][1][2][1] * n) \div b[i][1][2][2] = k
                       /\ (b[i][2] = 1) = pos}

\* an update step of an Auc instance: `fed` are the samples it consumed
C8_UpdateStep ==
    (cls = "Auc" /\ ret'.op = "update") =>
        LET n == self._num_thresholds
            fed == SubSeq(log', Len(log) + 1, Len(log'))
        IN  /\ log' = log \o fed
            /\ DOMAIN self'._stat_pos = 0..n
            /\ DOMAIN self'._stat_neg = 0..n
            /\ (\A i \in 1..Len(fed) : IsProbability(fed[i][1][2])) =>
                 \A k \in 0..n :
                    /\ self'._stat_pos[k] =
                         self._stat_pos[k] + Cardinality(InSlot(fed, n, TRUE, k))
                    /\ self'._stat_neg[k] =
                         self._stat_neg[k] + Cardinality(InSlot(fed, n, FALSE, k))

C8_AucUpdateHistogram == [][C8_UpdateStep]_vars

\* an update went through after which a positive lies in the top slot and
\* a negative in an inner slot
C8_Witness ==
    /\ cls = "Auc"
    /\ self._num_thresholds = 2
    /\ ret.op = "update"
    /\ ret.exc = "none"
    /\ \A i \in 1..Len(log) : IsProbability(log[i][1][2])
    /\ self._stat_pos[2] = 1
    /\ self._stat_neg[1] = 1
    /\ self._stat_neg[0] = 1

(***************************************************************************)
(* C9.  Auc.accumulate walks the slots from num_thresholds down to 0 with  *)
(* running totals of positives and negatives, adds at each slot the        *)
(* trapezoid |neg - neg_prev| * (pos + pos_prev) / 2 and returns the sum   *)
(* divided by (all positives * all negatives) when both are positive;      *)
(* when the samples fed share one label, or none was fed, it returns 0.0.  *)
(***************************************************************************)
RECURSIVE SumFrom(_, _, _)
\* f[lo] + ... + f[hi]
SumFrom(f, lo, hi) == IF lo > hi THEN 0 ELSE f[lo] + SumFrom(f, lo + 1, hi)

C9_AucTrapezoids ==
    (cls = "Auc" /\ ret.op = "accumulate") =>
        LET n == self._num_thresholds
            pos(idx) == SumFrom(self._stat_pos, idx, n)
            neg(idx) == SumFrom(self._stat_neg, idx, n)
            twice == [idx \in 0..n |->
                         Abs(neg(idx) - neg(idx + 1)) * (pos(idx) + pos(idx + 1))]
            expected == IF pos(0) > 0 /\ neg(0) > 0
                        THEN Rat(SumFrom(twice, 0, n), 2 * pos(0) * neg(0))
                        ELSE Zero
        IN  /\ ret.exc = "none"
            /\ ret.val = expected
            /\ pos(0) = Cardinality({i \in 1..Len(log) : log[i][2] # 0})
            /\ neg(0) = Cardinality({i \in 1..Len(log) : log[i][2] = 0})
            /\ (\A i, j \in 1..Len(log) : log[i][2] = log[j][2]) => ret.val = Zero

\* a positive above a negative and a negative sharing a slot with a positive
C9_Witness ==
    /\ cls = "Auc"
    /\ ret.op = "accumulate"
    /\ ret.val = Rat(3, 4)
    /\ Len(log) = 3

(***************************************************************************)
(* C10.  For a positive-class probability in [0, 1], 0 and 1 included, the *)
(* bucket index of Auc.update lies in 0..num_thresholds: the assertion     *)
(* holds and the slot is a slot of the array.                              *)
(***************************************************************************)
ProbGrid == {Rat(k, d) : k \in 0..GridDen, d \in 1..GridDen}

C10_BucketInRange ==
    (cls = "Auc" /\ JustSet) =>
        LET n == self._num_thresholds
        IN  \A v \in {x \in ProbGrid : IsProbability(x)} :
               LET bin_idx == AucBinIdx(v, n)
               IN  /\ 0 <= bin_idx
                   /\ bin_idx <= n
                   /\ NpIndex(bin_idx, n + 1) = bin_idx
                   /\ \A l \in LabelValues : AucStep(self, v, l).exc = "none"

\* the probabilities 0 and 1 have both been counted
C10_Witness ==
    /\ cls = "Auc"
    /\ ret.op = "update"
    /\ ret.exc = "none"
    /\ \E i \in 1..Len(log) : log[i][1][2] = One /\ log[i][2] = 1
    /\ \E i \in 1..Len(log) : log[i][1][2] = Zero
    /\ self._stat_pos[self._num_thresholds] >= 1
    /\ \A i \in 1..Len(log) : IsProbability(log[i][1][2])

(***************************************************************************)
(* C11.  Auc.update raises an AssertionError at a sample whose bucket      *)
(* index int(value * num_thresholds) exceeds num_thresholds, and that      *)
(* sample is counted in no slot: a batch of that sample alone leaves the   *)
(* instance as it was, a batch with a valid sample before it keeps that    *)
(* sample only, and the slots always sum to the number of samples          *)
(* consumed.                                                               *)
(***************************************************************************)
\* the values k/d from 0 to 2 * GridDen
C11_Values == {Rat(k, d) : k \in 0..(2 * GridDen), d \in 1..GridDen}

\* the values k/d that lie a whole bucket or more above 1
PastLastBucket(n) == {v \in C11_Values : (v[1] * n) \div v[2] > n}

C11_AssertPastLastBucket ==
    cls = "Auc" =>
        LET n == self._num_thresholds
        IN  /\ SeqSum(CountersOf(cls, self)) = Len(log)
            /\ (ret.op = "update" /\ ret.exc = "AssertionError") =>
                   ret.val = "None"
            /\ JustSet =>
                   \A v \in PastLastBucket(n), l \in LabelValues :
                      LET alone == AucUpdate(self, Nd(<<AucRow(v)>>), Nd(<<l>>))
                          after == AucUpdate(self, Nd(<<AucRow(One), AucRow(v)>>),
                                             Nd(<<1, l>>))
                      IN  /\ alone.exc = "AssertionError"
                          /\ alone.self = self
                          /\ after.exc = "AssertionError"
                          /\ after.self = [self EXCEPT !._stat_pos[n] = @ + 1]

\* an update has raised at the value 1.5 after other samples were counted
C11_Witness ==
    /\ cls = "Auc"
    /\ ret.op = "update"
    /\ ret.exc = "AssertionError"
    /\ Len(log) > 0
    /\ SeqSum(CountersOf(cls, self)) = Len(log)
    /\ Rat(3, 2) \in PastLastBucket(self._num_thresholds)

(***************************************************************************)
(* C12.  Precision.update and Recall.update raise a ValueError naming      *)
(* 'preds' when preds is neither an ndarray nor a Tensor, and one naming   *)
(* 'labels' when preds is valid and labels is neither, leaving the         *)
(* counters as they were; given Tensors they do what they do given the     *)
(* arrays the Tensors convert to.                                          *)
(***************************************************************************)
\* the batches of at most one sample
C12_Batches == {c \in BinaryBatches : Len(c) <= 1}

C12_InvalidTypeRejected ==
    cls \in {"Precision", "Recall"} =>
        LET upd(p, l) == IF cls = "Precision" THEN PrecisionUpdate(self, p, l)
                                              ELSE RecallUpdate(self, p, l)
        IN  /\ (ret.op = "update" /\ ret.exc \notin {"none", "IndexError"}) =>
                   ret.exc \in {"ValueError: preds", "ValueError: labels"}
            /\ JustSet =>
                   \A b \in C12_Batches :
                      LET p == Col(b, 1)
                          l == Col(b, 2)
                          arrays == upd(Nd(p), Nd(l))
                      IN  /\ \A good \in {Nd(l), Tensor(l)} :
                                 /\ upd(PyList(p), good).exc = "ValueError: preds"
                                 /\ upd(PyList(p), good).self = self
                          /\ \A good \in {Nd(p), Tensor(p)} :
                                 /\ upd(good, PyList(l)).exc = "ValueError: labels"
                                 /\ upd(good, PyList(l)).self = self
                          /\ arrays.exc = "none"
                          /\ upd(Tensor(p), Tensor(l)) = arrays
                          /\ upd(Tensor(p), Nd(l)) = arrays
                          /\ upd(Nd(p), Tensor(l)) = arrays

\* an update given labels of another type has raised, the counters kept
C12_Witness ==
    /\ cls = "Recall"
    /\ ret.op = "update"
    /\ ret.exc = "ValueError: labels"
    /\ self.tp > 0

(***************************************************************************)
(* C13.  The update of every class raises, for an argument that is neither *)
(* an ndarray nor a Tensor, an error of invalid input type that names the  *)
(* parameter, and leaves the counters as they were: Accuracy.update names  *)
(* 'correct', the other three name 'preds' or 'labels'.                    *)
(***************************************************************************)
C13_EveryUpdateRejectsByName ==
    LET other == PyList(<<>>)
        array == Nd(<<>>)
    IN  CASE cls = "Accuracy" ->
                 /\ AccuracyUpdate(self, other).exc = "ValueError: correct"
                 /\ AccuracyUpdate(self, other).self = self
          [] cls = "Precision" ->
                 /\ PrecisionUpdate(self, other, array).exc = "ValueError: preds"
                 /\ PrecisionUpdate(self, array, other).exc = "ValueError: labels"
          [] cls = "Recall" ->
                 /\ RecallUpdate(self, other, array).exc = "ValueError: preds"
                 /\ RecallUpdate(self, array, other).exc = "ValueError: labels"
          [] cls = "Auc" ->
                 /\ AucUpdate(self, other, array).exc = "ValueError: preds"
                 /\ AucUpdate(self, array, other).exc = "ValueError: labels"

(***************************************************************************)
(* C15.  As claimed: name() returns a single string for Precision, Recall, *)
(* Auc and an Accuracy with one cutoff, and a sequence of strings, one per *)
(* cutoff, for an Accuracy with several.                                   *)
(***************************************************************************)
C15_NameSingleStringForOneCutoff ==
    (ret.op = "name" /\ ret.exc = "none") =>
        IF cls = "Accuracy" /\ Len(self.topk) # 1
        THEN ret.val.kind = "list" /\ Len(ret.val.data) = Len(self.topk)
        ELSE ret.val.kind = "str"

(***************************************************************************)
(* C15, amended.  name() returns a single string for Precision, Recall and *)
(* Auc, and for every Accuracy a sequence of strings: the one-element      *)
(* sequence [name] when max(topk) is 1, else one string name_top<k> per    *)
(* cutoff k in topk order; no call changes what name() returns.            *)
(***************************************************************************)
\* what name() returns, by the class and the cutoffs
C15_Expected ==
    CASE cls = "Precision" -> PyStr("precision")
      [] cls = "Recall" -> PyStr("recall")
      [] cls = "Auc" -> PyStr("auc")
      [] cls = "Accuracy" ->
           IF SeqMax(self.topk) = 1 THEN PyList(<<PyStr("acc")>>)
           ELSE PyList([i \in 1..Len(self.topk) |->
                           PyStr(CASE self.topk[i] = 1 -> "acc_top1"
                                   [] self.topk[i] = 2 -> "acc_top2"
                                   [] self.topk[i] = 3 -> "acc_top3"
                                   [] OTHER -> "acc_top")])

C15_NameShape ==
    /\ NameOf(cls, self).exc = "none"
    /\ NameOf(cls, self).val = C15_Expected
    /\ ret.op = "name" => (ret.exc = "none" /\ ret.val = C15_Expected)

C15_NameStep ==
    /\ NameOf(cls', self').val = NameOf(cls, self).val
    /\ ret'.op = "name" => self' = self

C15_NameStable == []C15_NameShape /\ [][C15_NameStep]_vars

\* name() of a one-cutoff Accuracy, called after samples were counted
C15_Witness ==
    /\ cls = "Accuracy"
    /\ self.topk = <<2>>
    /\ ret.op = "name"
    /\ ret.val = PyList(<<PyStr("acc_top2")>>)
    /\ self.count[1] > 0

(***************************************************************************)
(* C17.  An Accuracy.update that returns, returns per cutoff k the number  *)
(* of ones in the first k columns of the batch it was given, divided by    *)
(* the number of rows of that batch, whatever the counters held before: a  *)
(* bare value when topk has one cutoff, else a sequence in topk order.     *)
(***************************************************************************)
C17_UpdateStep ==
    (cls = "Accuracy" /\ ret'.op = "update" /\ ret'.exc = "none") =>
        LET batch == SubSeq(log', Len(log) + 1, Len(log'))
            ones(k) == {<<r, j>> \in (1..Len(batch)) \X (1..k) :
                            j <= Len(batch[r]) /\ batch[r][j] = 1}
            ratio(i) == Rat(Cardinality(ones(self.topk[i])), Len(batch))
        IN  /\ Len(batch) > 0
            /\ ret'.val = IF Len(self.topk) = 1 THEN ratio(1)
                          ELSE [i \in 1..Len(self.topk) |-> ratio(i)]

C17_UpdateReturnsBatchRatio == [][C17_UpdateStep]_vars

\* the batch returned differs from what the counters hold after it
C17_Witness ==
    /\ cls = "Accuracy"
    /\ self.topk = <<1, 2>>
    /\ ret.op = "update"
    /\ ret.exc = "none"
    /\ ret.val = <<Zero, Rat(1, 2)>>
    /\ self.total[1] > 0
    /\ self.count[1] = 3

(***************************************************************************)
(* C18.  Accuracy.compute(pred, label) returns a mask with one row per     *)
(* sample and maxk = max(topk) columns, whose entry (i, j) is 1 when the   *)
(* class with the j-th highest score of sample i is its label and 0        *)
(* otherwise, and it changes no attribute; the docstring's four samples,   *)
(* run through compute, update and accumulate with topk = (1,), give 0.75. *)
(***************************************************************************)
\* the class of the row that exactly j - 1 classes outscore
C18_Ranked(row, j) ==
    CHOOSE c \in 0..(Len(row) - 1) :
        Cardinality({d \in 1..Len(row) :
                        row[d][1] * row[c + 1][2] > row[c + 1][1] * row[d][2]}) = j - 1

C18_ExampleRun ==
    LET m == AccuracyNew(<<1>>)
        correct == AccuracyCompute(m, AccuracyExample.x, AccuracyExample.y)
        fed == AccuracyUpdate(correct.self, correct.val)
    IN  /\ correct.exc = "none"
        /\ correct.self = m
        /\ correct.val.data = <<<<0>>, <<1>>, <<1>>, <<1>>>>
        /\ fed.exc = "none"
        /\ fed.val = Rat(3, 4)
        /\ AccuracyAccumulate(fed.self).val = Rat(3, 4)

C18_MaskOfState ==
    /\ C18_ExampleRun
    /\ cls = "Accuracy" =>
          \A b \in ScoreBatches \cup {[i \in 1..4 |-> <<AccuracyExample.x[i],
                                                        AccuracyExample.y[i]>>]} :
             LET o == AccuracyCompute(self, Col(b, 1), Col(b, 2))
                 mask == o.val.data
             IN  /\ o.exc = "none"
                 /\ o.self = self
                 /\ DOMAIN mask = 1..Len(b)
                 /\ \A i \in 1..Len(b) :
                        /\ DOMAIN mask[i] = 1..self.maxk
                        /\ \A j \in 1..self.maxk :
                               mask[i][j] = IF C18_Ranked(b[i][1], j) = b[i][2]
                                            THEN 1 ELSE 0

C18_ComputeStep == ret'.op = "compute" => (self' = self /\ log' = log)

C18_ComputeMask == []C18_MaskOfState /\ [][C18_ComputeStep]_vars

\* compute has returned a mask whose hit is in the second column, after
\* samples were counted
C18_Witness ==
    /\ cls = "Accuracy"
    /\ self.maxk = 2
    /\ ret.op = "compute"
    /\ ret.val = Tensor(<<<<0, 1>>>>)
    /\ self.count[1] > 0

(***************************************************************************)
(* C19.  As claimed: the decision of Precision, floor(pred + 0.5), and     *)
(* that of Recall, rint(pred), are the same for every float in [0, 1]      *)
(* other than 0.5, where Precision decides 1 and Recall 0.                 *)
(***************************************************************************)
\* the floats in [0, 1] down to the exponent -(MantissaBits + 2)
C19_Floats ==
    {x \in {Rat(m, Pow2(e)) : m \in 0..(Pow2(MantissaBits) - 1),
                              e \in 0..(MantissaBits + 2)} : x[1] <= x[2]}

\* what a Precision, and a Recall, adds to tp for a sample of label 1 and
\* prediction x: its decision, 1 or 0.  The instance of the state is the
\* one updated when it is of the class, else a new instance is.
C19_PrecisionDecides(x) ==
    LET s == IF cls = "Precision" THEN self ELSE PrecisionNew
    IN  PrecisionUpdate(s, Nd(<<x>>), Nd(<<1>>)).self.tp - s.tp

C19_RecallDecides(x) ==
    LET s == IF cls = "Recall" THEN self ELSE RecallNew
    IN  RecallUpdate(s, Nd(<<x>>), Nd(<<1>>)).self.tp - s.tp

C19_AgreeOffTheTie ==
    cls \in {"Precision", "Recall"} =>
        \A x \in C19_Floats :
            IF x = Rat(1, 2)
            THEN C19_PrecisionDecides(x) = 1 /\ C19_RecallDecides(x) = 0
            ELSE C19_PrecisionDecides(x) = C19_RecallDecides(x)

(***************************************************************************)
(* C19, amended.  The two decisions differ on exactly two floats of        *)
(* [0, 1]: on 0.5, and on the float next below 0.5, whose sum with 0.5     *)
(* lies half way between two floats and is rounded to 1.0; on both         *)
(* Precision decides 1 and Recall 0.  On every other float of [0, 1] they  *)
(* agree, and so do the counters of a Precision instance with the          *)
(* decisions of Recall but for the samples at the tie.  The decisions are  *)
(* those of an instance whose counters are zero.                           *)
(***************************************************************************)
\* the float next below 0.5
C19_BelowHalf == Rat(Pow2(MantissaBits) - 1, Pow2(MantissaBits + 1))

C19_DifferAtHalfAndBelow ==
    /\ (cls \in {"Precision", "Recall"} /\ log = <<>>) =>
          \A x \in C19_Floats :
             /\ IF x \in {Rat(1, 2), C19_BelowHalf}
                THEN C19_PrecisionDecides(x) = 1 /\ C19_RecallDecides(x) = 0
                ELSE C19_PrecisionDecides(x) = C19_RecallDecides(x)
             /\ C19_PrecisionDecides(x) = (IF NpFloorHalf(x) = 1 THEN 1 ELSE 0)
             /\ C19_RecallDecides(x) = (IF NpRint(x) = 1 THEN 1 ELSE 0)
    /\ C19_BelowHalf \in C19_Floats
    /\ RLess(C19_BelowHalf, Rat(1, 2))
    /\ cls = "Precision" =>
          self.tp = Cardinality({i \in 1..Len(log) :
                                    log[i][2] = 1 /\ NpRint(log[i][1]) = 1})
                    + Cardinality({i \in 1..Len(log) : log[i] = <<Rat(1, 2), 1>>})

\* a Precision instance counted a positive at 0.5 that Recall would miss
C19_Witness ==
    /\ cls = "Precision"
    /\ log = <<<<Rat(1, 2), 1>>>>
    /\ self.tp = 1
    /\ RecallUpdate(RecallNew, Nd(<<Rat(1, 2)>>), Nd(<<1>>)).self.tp = 0
    /\ RecallUpdate(RecallNew, Nd(<<Rat(1, 2)>>), Nd(<<1>>)).self.fn = 1

(***************************************************************************)
(* C16.  A class derived from Metric that leaves reset, update, accumulate *)
(* or name undefined fails at once: its construction raises an error that  *)
(* names the class and the undefined methods, so no method of it is ever   *)
(* called.  A method defined to call the one of Metric raises              *)
(* NotImplementedError naming that method and the class.                   *)
(***************************************************************************)
C16_Missing == {f \in AbstractMethods : cls.defines[f] = "missing"}

C16_MissingFailsFast ==
    /\ C16_Missing # {} =>
          /\ self = NoObject
          /\ ret.op = "__init__"
          /\ ret.exc.type = "TypeError"
          /\ ret.exc.function = C16_Missing
          /\ ret.exc.cls = cls.name
    /\ C16_Missing = {} =>
          /\ self = [__class__ |-> cls.name]
          /\ ret.op = "__init__" => ret.exc = NoException
          /\ (ret.op \in AbstractMethods /\ cls.defines[ret.op] = "super") =>
                 ret.exc = [type |-> "NotImplementedError",
                            function |-> {ret.op}, cls |-> cls.name]
          /\ (ret.op \in AbstractMethods /\ cls.defines[ret.op] = "own") =>
                 ret.exc = NoException

\* the construction of a class without reset of its own has failed
C16_Witness ==
    /\ C16_Missing = {"reset"}
    /\ cls.name = "MyMetric"
    /\ ret.op = "__init__"
    /\ ret.exc = [type |-> "TypeError", function |-> {"reset"}, cls |-> "MyMetric"]
    /\ self = NoObject

(***************************************************************************)
(* C14.  Two instances, of one class or of two, share no object: no list   *)
(* or array is referred to by both, and a call of update, reset or         *)
(* accumulate on one of them leaves the attributes, the counters and the   *)
(* result of accumulate() of the other as they were.                       *)
(***************************************************************************)
C14_Refs(k) ==
    {self[k][ContainerFields(cls[k])[i]] : i \in 1..Len(ContainerFields(cls[k]))}

\* what is seen of the object o of class c: its attributes, its counters
\* and what accumulate() returns
C14_View(h, c, o) ==
    LET s == Load(h, c, o)
    IN  <<s, CountersOf(c, s), AccumulateOf(c, s).val>>

C14_Disjoint ==
    /\ C14_Refs(1) \cap C14_Refs(2) = {}
    /\ C14_Refs(1) \cup C14_Refs(2) = DOMAIN heap

C14_OtherStep ==
    \A k \in 1..2 :
        k # ret'.who =>
            /\ C14_View(heap', cls'[k], self'[k]) = C14_View(heap, cls[k], self[k])
            /\ log'[k] = log[k]

C14_NoSharedState == []C14_Disjoint /\ [][C14_OtherStep]_vars

\* the second of two Auc instances was reset and then fed, the first keeps
\* what it counted
C14_Witness ==
    /\ cls = <<"Auc", "Auc">>
    /\ ret.op = "update"
    /\ ret.who = 2
    /\ log = <<2, 1>>
    /\ C14_View(heap, "Auc", self[1])[2] # C14_View(heap, "Auc", self[2])[2]
    /\ C14_Refs(2) \cap {1, 2, 3, 4} = {}

(***************************************************************************)
(* C20.  When both threads have returned from update, each counter and the *)
(* additions undone on it sum to what the counter holds after the two      *)
(* calls made one after the other; under the caller's lock no addition is  *)
(* undone, so the counters are those of the calls made one after the       *)
(* other, in either order.  Without the lock a state is reached in which   *)
(* a counter holds less: an addition is lost.                              *)
(***************************************************************************)
\* the instance after the calls of thread a and then of thread b
C20_Sequential(a, b) ==
    UpdateOf(cls, UpdateOf(cls, ResetOf(cls, self).self,
                           threads.run[a].batch).self,
             threads.run[b].batch).self

C20_BothReturned == \A t \in 1..2 : threads.run[t].pc = "done"

C20_SerializedIsSequential ==
    /\ threads.lock # -1 =>
          /\ \A counter \in DOMAIN log : log[counter] = 0
          /\ \E t \in 1..2 : threads.run[t].pc \in {"idle", "done"}
    /\ C20_BothReturned =>
          LET one == C20_Sequential(1, 2)
          IN  /\ \A counter \in DOMAIN log \cap DOMAIN self :
                     /\ self[counter] + log[counter] = one[counter]
                     /\ self[counter] <= one[counter]
              /\ threads.lock # -1 => self = one
              /\ one = C20_Sequential(2, 1)

\* both threads have returned and a true positive is missing
C20_Witness ==
    /\ C20_BothReturned
    /\ threads.lock = -1
    /\ self.tp < C20_Sequential(1, 2).tp
    /\ log.tp > 0

(***************************************************************************)
(* C21.  Auc.accumulate is the ranking statistic of the pairs: with P > 0  *)
(* samples counted in _stat_pos and N > 0 in _stat_neg, it returns (the    *)
(* number of pairs of a positive and a negative whose positive lies in the *)
(* higher slot, plus half the number of pairs that share a slot) divided   *)
(* by P * N.  The slot of a sample is where update counted it, which for a *)
(* probability is floor(value * num_thresholds).                           *)
(***************************************************************************)
\* twice the statistic's numerator over the slots: pos and neg are the
\* numbers of positives and negatives per slot 0..n
C21_TwicePairs(pos, neg, n) ==
    SumFrom([a \in 0..n |-> pos[a] * (2 * SumFrom(neg, 0, a - 1) + neg[a])], 0, n)

\* the statistic over the samples themselves, each <<row, label>>
C21_OfSamples(b, n) ==
    LET bucket(i) == (b[i][1][2][1] * n) \div b[i][1][2][2]
        P == {i \in 1..Len(b) : b[i][2] # 0}
        N == {j \in 1..Len(b) : b[j][2] = 0}
        higher == Cardinality({<<i, j>> \in P \X N : bucket(i) > bucket(j)})
        equal == Cardinality({<<i, j>> \in P \X N : bucket(i) = bucket(j)})
    IN  IF P # {} /\ N # {}
        THEN Rat(2 * higher + equal, 2 * Cardinality(P) * Cardinality(N))
        ELSE Zero

C21_AucIsPairStatistic ==
    (cls = "Auc" /\ (JustSet \/ JustRead)) =>
        LET n == self._num_thresholds
            P == SumFrom(self._stat_pos, 0, n)
            N == SumFrom(self._stat_neg, 0, n)
            expected == IF P > 0 /\ N > 0
                        THEN Rat(C21_TwicePairs(self._stat_pos, self._stat_neg, n),
                                 2 * P * N)
                        ELSE Zero
        IN  /\ AucAccumulate(self).exc = "none"
            /\ AucAccumulate(self).val = expected
            /\ ret.op = "accumulate" => ret.val = expected
            /\ (\A i \in 1..Len(log) : IsProbability(log[i][1][2])) =>
                   expected = C21_OfSamples(log, n)

\* a positive below one negative and in the slot of another
C21_Witness ==
    /\ cls = "Auc"
    /\ ret.op = "accumulate"
    /\ ret.val = Rat(1, 4)
    /\ Len(log) = 3
    /\ \A i \in 1..Len(log) : IsProbability(log[i][1][2])
    /\ Cardinality({i \in 1..Len(log) : log[i][2] = 0}) = 2

(***************************************************************************)
(* C22.  Every sample that Auc.update has counted lies in slot             *)
(* floor(value * num_thresholds), which is one of 0..num_thresholds, also  *)
(* when its value is no probability: a negative value is not counted from  *)
(* the end of the array and a value above 1 is not counted in the top      *)
(* slot.                                                                   *)
(***************************************************************************)
C22_Floor(i) == (log[i][1][2][1] * self._num_thresholds) \div log[i][1][2][2]

C22_AcceptedInFloorSlot ==
    cls = "Auc" =>
        LET n == self._num_thresholds
            at(k, pos) == {i \in 1..Len(log) :
                              C22_Floor(i) = k /\ (log[i][2] # 0) = pos}
        IN  /\ \A i \in 1..Len(log) : 0 <= C22_Floor(i) /\ C22_Floor(i) <= n
            /\ \A k \in 0..n :
                   /\ self._stat_pos[k] = Cardinality(at(k, TRUE))
                   /\ self._stat_neg[k] = Cardinality(at(k, FALSE))
            /\ \A i \in 1..Len(log) :
                   RLess(One, log[i][1][2]) =>
                       self._stat_pos[n] + self._stat_neg[n]
                           = Cardinality({j \in 1..Len(log) :
                                 IsProbability(log[j][1][2]) /\ C22_Floor(j) = n})

(***************************************************************************)
(* C23.  As claimed: an update that raises leaves every counter as it was  *)
(* before the call, whatever the class and the cause.                      *)
(***************************************************************************)
C23_RaisingStep ==
    (ret'.op = "update" /\ ret'.exc # "none") =>
        CountersOf(cls', self') = CountersOf(cls, self)

C23_RaisingUpdateKeepsCounters == [][C23_RaisingStep]_vars

(***************************************************************************)
(* C23, amended.  An update that raises before its loop counts a sample    *)
(* (an argument of another type, in every class; a batch of no rows given  *)
(* to Accuracy.update) leaves every counter as it was.  One that raises    *)
(* inside its loop (the assertion of Auc.update; preds shorter than labels *)
(* in Precision, Recall and Auc) keeps what it added for the samples       *)
(* before the one it raised at, and adds nothing for that one and the      *)
(* later ones: the counters are those of an update that was given the      *)
(* earlier samples alone.                                                  *)
(***************************************************************************)
C23_BeforeLoop ==
    {"ValueError: preds", "ValueError: labels", "TypeError", "ZeroDivisionError"}

C23_InsideLoop == {"AssertionError", "IndexError"}

C23_PrefixStep ==
    (ret'.op = "update" /\ ret'.exc # "none") =>
        LET earlier == SubSeq(log', Len(log) + 1, Len(log'))
        IN  /\ log' = log \o earlier
            /\ ret'.val = "None"
            /\ cls' = cls
            /\ ret'.exc \in C23_BeforeLoop \cup C23_InsideLoop
            /\ cls = "Accuracy" => ret'.exc \in {"TypeError", "ZeroDivisionError"}
            /\ ret'.exc \in C23_BeforeLoop => (earlier = <<>> /\ self' = self)
            /\ ret'.exc \in C23_InsideLoop =>
                   /\ UpdateOf(cls, self, earlier).exc = "none"
                   /\ self' = UpdateOf(cls, self, earlier).self
                   /\ SeqSum(CountersOf(cls, self'))
                          <= SeqSum(CountersOf(cls, self)) + Len(earlier)

C23_RaisingUpdateKeepsPrefix == [][C23_PrefixStep]_vars

\* an update of a Precision has raised for want of a prediction, and both
\* counters hold a sample
C23_Witness ==
    /\ cls = "Precision"
    /\ ret.op = "update"
    /\ ret.exc = "IndexError"
    /\ self.tp = 1
    /\ self.fp = 1
    /\ Len(log) = 2

(***************************************************************************)
(* C24.  Every value accumulate() returns lies in [0, 1]: that of a        *)
(* Precision, a Recall and an Auc in every state, and each value of an     *)
(* Accuracy that was fed masks with at most one 1 per row, as compute      *)
(* returns them; for such an Accuracy count[i] is the same for all cutoffs *)
(* and total[i] <= total[j] <= count[j] whenever topk[i] <= topk[j].       *)
(***************************************************************************)
C24_InUnitInterval(x) == Finite(x) /\ 0 <= x[1] /\ x[1] <= x[2]

C24_AtMostOneHit(rows) == \A r \in 1..Len(rows) : SeqSum(rows[r]) <= 1

C24_AccumulateInUnitInterval ==
    (JustSet \/ JustRead) =>
    LET v == AccumulateOf(cls, self)
    IN  /\ cls \in {"Precision", "Recall", "Auc"} =>
               /\ v.exc = "none"
               /\ C24_InUnitInterval(v.val)
               /\ ret.op = "accumulate" =>
                      (ret.exc = "none" /\ C24_InUnitInterval(ret.val))
        /\ (cls = "Accuracy" /\ JustSet) =>
               \A b \in ScoreBatches :
                   C24_AtMostOneHit(AccuracyCompute(self, Col(b, 1), Col(b, 2)).val.data)
        /\ (cls = "Accuracy" /\ C24_AtMostOneHit(log)) =>
               LET cutoffs == 1..Len(self.topk)
               IN  /\ v.exc = "none"
                   /\ IF Len(self.topk) = 1 THEN C24_InUnitInterval(v.val)
                      ELSE \A i \in cutoffs : C24_InUnitInterval(v.val[i])
                   /\ ret.op = "accumulate" => (ret.exc = "none" /\ ret.val = v.val)
                   /\ \A i, j \in cutoffs : self.count[i] = self.count[j]
                   /\ \A i, j \in cutoffs :
                          self.topk[i] <= self.topk[j] =>
                              /\ self.total[i] <= self.total[j]
                              /\ self.total[j] <= self.count[j]

\* an Accuracy whose first cutoff is the wider one was fed three masks, a
\* hit in the first column, one in the second and none
C24_Witness ==
    /\ cls = "Accuracy"
    /\ self.topk = <<2, 1>>
    /\ ret.op = "accumulate"
    /\ ret.val = <<Rat(2, 3), Rat(1, 3)>>
    /\ C24_AtMostOneHit(log)
    /\ self.count = <<3, 3>>

====
